---- MODULE Spec2Model ----
(***************************************************************************)
(* PDF chatbot backend: the upload endpoint, the RabbitMQ ingestion        *)
(* worker, the Qdrant collections, the chat endpoint with its in-memory    *)
(* conversation history, and the SSE status stream.                        *)
(*                                                                         *)
(* src/backend/api.py    upload_pdf, chat_with_pdf, document_status_stream *)
(* src/backend/worker.py process_pdf, main                                 *)
(*                                                                         *)
(* Every call to an external service (broker, vector store, embedding      *)
(* model, language model, file system) either returns or raises; each      *)
(* action draws that outcome with \E ok \in BOOLEAN.                       *)
(***************************************************************************)
EXTENDS Integers, Sequences, FiniteSets, TLC

\* ------------------------------------------------------------------ bounds
\* Largest number of chunks the text splitter yields for an uploaded file.
MaxChunks == 2
\* Largest number of events one status stream emits before the client stops reading.
MaxEvents == 3
\* Largest number of turns recorded in one conversation.
MaxTurns == 5
\* Largest number of turns recorded while an ingestion is followed.
MaxTurnsIngest == 1
\* Largest number of turns recorded while two chat requests are followed.
MaxTurnsPair == 2

\* --------------------------------------------------------------- constants
\* uuid4 values handed out by upload_pdf, in the order they are generated.
DocSeq == <<"d1", "d2">>
DocIds == {DocSeq[k] : k \in 1 .. Len(DocSeq)}
\* The uploads the ingestion specification follows.
PipelineDocs == {"d1"}
\* A doc_id string no upload ever returned.
UnknownDoc == "d0"
\* A queue message whose body is not a JSON object with doc_id and file_path.
BadMsg == "bad"
MsgIds == DocIds \cup {BadMsg}
Workers == {"w1", "w2"}
\* wjob of a worker that is not inside process_pdf.
NoJob == "none"
NoContent == -1

\* history[-3:] in chat_with_pdf.
HistoryWindow == 3
\* search_kwargs={"k": 5} in chat_with_pdf.
RetrievalK == 5

VARIABLES
    upl,          \* [DocIds -> position of the upload_pdf call that drew this uuid]
    fileExists,   \* [DocIds -> BOOLEAN]: /tmp/uploads/{doc_id}.pdf exists
    content,      \* [DocIds -> number of chunks of the written file, or NoContent]
    published,    \* [DocIds -> number of basic_publish calls that succeeded]
    q,            \* [MsgIds -> "none" | "ready" | "acked" | "dropped" | the worker holding it unacked]
    wpc,          \* [Workers -> position of the worker in main / process_pdf]
    wjob,         \* [Workers -> the message process_pdf was called with]
    wn,           \* [Workers -> len(chunks) of the current attempt]
    wi,           \* [Workers -> loop index i of the current attempt]
    chan,         \* [Workers -> BOOLEAN]: the worker's channel is open
    settled,      \* [MsgIds -> the settlements the broker has seen for the message]
    coll,         \* [DocIds \cup {UnknownDoc} -> NoColl or the Qdrant collection]
    stream,       \* the status stream (event_generator)
    chat,         \* the chat_with_pdf call the event loop is running or ran last
    waiting,      \* the chat_with_pdf call of another request, not running
    conversation_history  \* the dict of api.py: conversation_id -> list of turns

vars == <<upl, fileExists, content, published, q, wpc, wjob, wn, wi, chan, settled, coll,
          stream, chat, waiting, conversation_history>>

\* ----------------------------------------------------------------- helpers
Min(a, b) == IF a < b THEN a ELSE b

Last(s) == s[Len(s)]

\* The job message upload_pdf builds for a doc_id.
job_data(d) == [doc_id |-> d, file_path |-> d]

\* json.loads(body) succeeds and body has both keys.
WellFormed(m) == m \in DocIds

\* Chunk i of the text of document d; the splitter is a function of the text.
Chunk(d, i) == <<d, i>>

\* embeddings.embed_query: a vector of fixed length that depends on the text.
embed_query(text) == <<"vec", text>>

\* len(embeddings.embed_query("test")).
embedding_dim == Len(embed_query("test"))

\* PointStruct(id=i, vector=embedding, payload={page_content, ...}).
PointStruct(d, i) == [vector |-> embed_query(Chunk(d, i)), payload |-> Chunk(d, i)]

\* A collection name Qdrant does not know.
NoColl == [exists |-> FALSE, size |-> 0, points |-> <<>>]

\* The collection recreate_collection leaves behind: no points.
EmptyCollection == [exists |-> TRUE, size |-> embedding_dim, points |-> <<>>]

\* Qdrant holds a collection of that name.
CollectionExists(d) == coll[d].exists

\* qdrant_client.get_collection returns (does not raise).
GetCollectionReturns(d, ok) == ok /\ CollectionExists(d)

\* The ids of the points a collection holds.
PointIds(d) == DOMAIN coll[d].points

\* The ids of the chunks of the uploaded document d.
ChunkIds(d) == IF content[d] = NoContent THEN {} ELSE 0 .. content[d] - 1

\* The collection of d holds one point per chunk of the document.
Complete(d) ==
    /\ d \in DocIds
    /\ content[d] # NoContent
    /\ CollectionExists(d)
    /\ DOMAIN coll[d].points = ChunkIds(d)
    /\ \A i \in ChunkIds(d) : coll[d].points[i] = PointStruct(d, i)

\* ---------------------------------------------------------------- event loop
\* An event loop that may leave a chat_with_pdf coroutine anywhere, as if
\* rag_chain.invoke were awaited.
LoopAlwaysFree == TRUE

\* api.py runs on one event loop: chat_with_pdf has no await, and upload_pdf
\* has none after file.read(), so each runs to its end without yielding.
LoopFree ==
    /\ chat.pc \in {"idle", "done"}
    /\ \A d \in DocIds : upl[d] \notin {"publish", "close"}

\* ------------------------------------------------------------------- upload
ContentTypes == {"", "text/plain", "application/pdf", "APPLICATION/PDF"}

\* str.lower on the content types above.
lower(ct) == IF ct = "APPLICATION/PDF" THEN "application/pdf" ELSE ct

\* "pdf" in s.
ContainsPdf(s) == s = "application/pdf"

\* not file.content_type or "pdf" not in file.content_type.lower()
InvalidContentType(ct) == ct = "" \/ ~ContainsPdf(lower(ct))

\* The uuid4 the next upload_pdf call draws: the first one not drawn yet.
NextUuid(d) ==
    \E k \in 1 .. Len(DocSeq) :
        /\ DocSeq[k] = d
        /\ upl[d] = "unused"
        /\ \A j \in 1 .. k - 1 : upl[DocSeq[j]] # "unused"

\* upload_pdf up to its await: uuid4, the content-type check, open(file_path, "wb").
UploadStart(d, ct) ==
    /\ LoopFree
    /\ NextUuid(d)
    /\ \E ok \in BOOLEAN :
        /\ upl' = [upl EXCEPT ![d] =
                IF InvalidContentType(ct) THEN "failed400"
                ELSE IF ok THEN "reading" ELSE "failed500"]
        /\ fileExists' = [fileExists EXCEPT ![d] = ~InvalidContentType(ct) /\ ok]
    /\ UNCHANGED <<content, published, q, wpc, wjob, wn, wi, chan, settled, coll,
                   stream, chat, waiting, conversation_history>>

\* After file.read(): buffer.write, BlockingConnection, channel, queue_declare.
\* n is the number of chunks the written text splits into.
UploadWrite(d, n) ==
    /\ LoopFree
    /\ upl[d] = "reading"
    /\ \E okWrite, okConnect \in BOOLEAN :
        /\ content' = [content EXCEPT ![d] = IF okWrite THEN n ELSE NoContent]
        /\ upl' = [upl EXCEPT ![d] =
                IF okWrite /\ okConnect THEN "publish" ELSE "failed500"]
    /\ UNCHANGED <<fileExists, published, q, wpc, wjob, wn, wi, chan, settled, coll,
                   stream, chat, waiting, conversation_history>>

\* channel.basic_publish(body=json.dumps(job_data), delivery_mode=2).
UploadPublish(d) ==
    /\ upl[d] = "publish"
    /\ \E ok \in BOOLEAN :
        IF ok
        THEN /\ q' = [q EXCEPT ![job_data(d).doc_id] = "ready"]
             /\ published' = [published EXCEPT ![d] = @ + 1]
             /\ upl' = [upl EXCEPT ![d] = "close"]
        ELSE /\ upl' = [upl EXCEPT ![d] = "failed500"]
             /\ UNCHANGED <<q, published>>
    /\ UNCHANGED <<fileExists, content, wpc, wjob, wn, wi, chan, settled, coll,
                   stream, chat, waiting, conversation_history>>

\* connection.close(), then return UploadResponse(doc_id=doc_id).
UploadClose(d) ==
    /\ upl[d] = "close"
    /\ \E ok \in BOOLEAN :
        upl' = [upl EXCEPT ![d] = IF ok THEN "returned" ELSE "failed500"]
    /\ UNCHANGED <<fileExists, content, published, q, wpc, wjob, wn, wi, chan, settled, coll,
                   stream, chat, waiting, conversation_history>>

\* Something outside the backend removes the uploaded file from /tmp/uploads.
RemoveFile(d) ==
    /\ fileExists[d]
    /\ upl[d] \in {"returned", "failed500"}
    /\ fileExists' = [fileExists EXCEPT ![d] = FALSE]
    /\ UNCHANGED <<upl, content, published, q, wpc, wjob, wn, wi, chan, settled, coll,
                   stream, chat, waiting, conversation_history>>

\* ------------------------------------------------------------------- worker
\* The exception classes process_pdf tells apart; a worker whose wpc is one
\* of them is in the except clause for it, before its basic_nack.
Raised == {"FileNotFoundError", "Exception"}

\* Requeue with both except clauses asking for redelivery.
RequeueAlways(exc) == TRUE

\* Requeue with neither except clause asking for redelivery.
RequeueNever(exc) == FALSE

\* Requeue with the two flags exchanged.
RequeueOnlyMissing(exc) == exc = "FileNotFoundError"

\* The requeue argument of the basic_nack in the except clause for exc.
Requeue(exc) == exc # "FileNotFoundError"

\* What the broker is told by basic_nack(requeue=r).
NackKind(r) == IF r THEN "nack_requeue" ELSE "nack_drop"

\* LoopOrAck without the basic_ack: process_pdf returns after the loop.
LoopOrReturn(n, i) == IF i < n THEN "upsert" ELSE "idle"

\* Position after the collection is ensured: the for loop, or past it when
\* there are no chunks.
LoopOrAck(n, i) == IF i < n THEN "upsert" ELSE "ack"

\* f with key k set to v.
Put(f, k, v) == [x \in DOMAIN f \cup {k} |-> IF x = k THEN v ELSE f[x]]

\* The deliveries the broker holds unacknowledged for a worker's channel.
Unacked(w) == {m \in MsgIds : q[m] = w}

\* A channel on which basic_qos was not called: the broker pushes every
\* ready message.
prefetch_unlimited == Cardinality(MsgIds)

\* channel.basic_qos(prefetch_count=1).
prefetch_count == 1

\* Another producer puts a message on pdf_processing_queue whose body is not
\* a job of upload_pdf.
PublishForeign ==
    /\ q[BadMsg] = "none"
    /\ q' = [q EXCEPT ![BadMsg] = "ready"]
    /\ UNCHANGED <<upl, fileExists, content, published, wpc, wjob, wn, wi, chan, settled,
                   coll, stream, chat, waiting, conversation_history>>

\* The broker pushes a ready message to a consumer holding fewer than
\* prefetch_count unacknowledged deliveries, and start_consuming calls
\* process_pdf with it.
Deliver(w, m) ==
    /\ chan[w]
    /\ Cardinality(Unacked(w)) < prefetch_count
    /\ q[m] = "ready"
    /\ q' = [q EXCEPT ![m] = w]
    /\ wpc' = [wpc EXCEPT ![w] = "begin"]
    /\ wjob' = [wjob EXCEPT ![w] = m]
    /\ UNCHANGED <<upl, fileExists, content, published, wn, wi, chan, settled, coll,
                   stream, chat, waiting, conversation_history>>

\* process_pdf from json.loads to the probe embedding: parse, os.path.exists,
\* loader.load, split_documents, embed_query("test").
WorkerBegin(w) ==
    /\ wpc[w] = "begin"
    /\ \E ok \in BOOLEAN :
        LET m == wjob[w] IN
        IF ~WellFormed(m)
        THEN /\ wpc' = [wpc EXCEPT ![w] = "Exception"]
             /\ UNCHANGED wn
        ELSE IF ~fileExists[job_data(m).file_path]
        THEN /\ wpc' = [wpc EXCEPT ![w] = "FileNotFoundError"]
             /\ UNCHANGED wn
        ELSE IF ok
        THEN /\ wpc' = [wpc EXCEPT ![w] = "get_collection"]
             /\ wn' = [wn EXCEPT ![w] = content[job_data(m).file_path]]
        ELSE /\ wpc' = [wpc EXCEPT ![w] = "Exception"]
             /\ UNCHANGED wn
    /\ UNCHANGED <<upl, fileExists, content, published, q, wjob, wi, chan, settled,
                   coll, stream, chat, waiting, conversation_history>>

\* try: qdrant_client.get_collection(collection_name); any exception leads to
\* recreate_collection.
WorkerGetCollection(w) ==
    /\ wpc[w] = "get_collection"
    /\ \E ok \in BOOLEAN :
        wpc' = [wpc EXCEPT ![w] =
            IF GetCollectionReturns(wjob[w], ok)
            THEN LoopOrAck(wn[w], 0) ELSE "recreate"]
    /\ UNCHANGED <<upl, fileExists, content, published, q, wjob, wn, wi, chan,
                   settled, coll, stream, chat, waiting, conversation_history>>

\* qdrant_client.recreate_collection(collection_name, VectorParams(size, COSINE)).
WorkerRecreate(w) ==
    /\ wpc[w] = "recreate"
    /\ \E ok \in BOOLEAN :
        IF ok
        THEN /\ coll' = [coll EXCEPT ![wjob[w]] = EmptyCollection]
             /\ wpc' = [wpc EXCEPT ![w] = LoopOrAck(wn[w], 0)]
        ELSE /\ wpc' = [wpc EXCEPT ![w] = "Exception"]
             /\ UNCHANGED coll
    /\ UNCHANGED <<upl, fileExists, content, published, q, wjob, wn, wi, chan,
                   settled, stream, chat, waiting, conversation_history>>

\* PointId with every point given the same id.
PointIdConstant(i) == 0

\* id=i of the PointStruct built for the chunk enumerate() numbers i.
PointId(i) == i

\* One pass of the for loop: embed_query(chunk), PointStruct(id=i), upsert.
WorkerUpsert(w) ==
    /\ wpc[w] = "upsert"
    /\ \E ok \in BOOLEAN :
        LET d == wjob[w]
            i == wi[w]
        IN  IF ok /\ CollectionExists(d)
            THEN /\ coll' = [coll EXCEPT ![d].points = Put(@, PointId(i), PointStruct(d, i))]
                 /\ wi' = [wi EXCEPT ![w] = i + 1]
                 /\ wpc' = [wpc EXCEPT ![w] = LoopOrAck(wn[w], i + 1)]
            ELSE /\ wpc' = [wpc EXCEPT ![w] = "Exception"]
                 /\ UNCHANGED <<coll, wi>>
    /\ UNCHANGED <<upl, fileExists, content, published, q, wjob, wn, chan, settled,
                   stream, chat, waiting, conversation_history>>

\* ch.basic_ack(delivery_tag). On a closed channel it raises, and the
\* except Exception clause runs.
WorkerAck(w) ==
    /\ wpc[w] = "ack"
    /\ IF chan[w]
       THEN /\ q' = [q EXCEPT ![wjob[w]] = "acked"]
            /\ settled' = [settled EXCEPT ![wjob[w]] = @ \cup {"ack"}]
            /\ wpc' = [wpc EXCEPT ![w] = "idle"]
            /\ wjob' = [wjob EXCEPT ![w] = NoJob]
            /\ wn' = [wn EXCEPT ![w] = 0]
            /\ wi' = [wi EXCEPT ![w] = 0]
       ELSE /\ wpc' = [wpc EXCEPT ![w] = "Exception"]
            /\ UNCHANGED <<q, settled, wjob, wn, wi>>
    /\ UNCHANGED <<upl, fileExists, content, published, chan, coll,
                   stream, chat, waiting, conversation_history>>

\* ch.basic_nack(delivery_tag, requeue=...) in an except clause. On a closed
\* channel it raises out of process_pdf and start_consuming: the worker ends.
WorkerNack(w) ==
    /\ wpc[w] \in Raised
    /\ IF chan[w]
       THEN /\ q' = [q EXCEPT ![wjob[w]] =
                    IF Requeue(wpc[w]) THEN "ready" ELSE "dropped"]
            /\ settled' = [settled EXCEPT ![wjob[w]] = @ \cup {NackKind(Requeue(wpc[w]))}]
            /\ wpc' = [wpc EXCEPT ![w] = "idle"]
       ELSE /\ wpc' = [wpc EXCEPT ![w] = "dead"]
            /\ UNCHANGED <<q, settled>>
    /\ wjob' = [wjob EXCEPT ![w] = NoJob]
    /\ wn' = [wn EXCEPT ![w] = 0]
    /\ wi' = [wi EXCEPT ![w] = 0]
    /\ UNCHANGED <<upl, fileExists, content, published, chan, coll,
                   stream, chat, waiting, conversation_history>>

\* The broker loses the worker's channel (connection reset, missed
\* heartbeats) and returns its unacknowledged delivery to the queue.
ChannelLost(w) ==
    /\ chan[w]
    /\ chan' = [chan EXCEPT ![w] = FALSE]
    /\ q' = [m \in MsgIds |-> IF q[m] = w THEN "ready" ELSE q[m]]
    /\ settled' = [m \in MsgIds |->
                    IF q[m] = w THEN settled[m] \cup {"lost"} ELSE settled[m]]
    /\ wpc' = [wpc EXCEPT ![w] = IF @ = "idle" THEN "dead" ELSE @]
    /\ UNCHANGED <<upl, fileExists, content, published, wjob, wn, wi, coll,
                   stream, chat, waiting, conversation_history>>

\* ------------------------------------------------------------ status stream
\* StatusOf with the two yields exchanged.
StatusOfSwapped(found) == IF found THEN "processing" ELSE "processed"

\* StatusOf that never reports completion.
StatusOfNever(found) == "processing"

\* The status of the event a check yields.
StatusOf(found) == IF found THEN "processed" ELSE "processing"

NoStream == [pc |-> "none", doc |-> UnknownDoc, events |-> <<>>, checks |-> <<>>,
             afterReturn |-> FALSE]

\* A client opens /sse/document-status/{doc_id}.
StreamOpen(d) ==
    /\ LoopFree
    /\ stream.pc = "none"
    /\ stream' = [pc |-> "polling", doc |-> d, events |-> <<>>, checks |-> <<>>,
                  afterReturn |-> upl[d] = "returned"]
    /\ UNCHANGED <<upl, fileExists, content, published, q, wpc, wjob, wn, wi, chan,
                   settled, coll, chat, waiting, conversation_history>>

\* One pass of the while loop of event_generator: get_collection, then yield
\* "processed" and break, or yield "processing" and sleep. checks records, for
\* each pass, whether get_collection returned, whether the collection existed
\* and whether the job was acknowledged or rejected without redelivery.
StreamCheck ==
    /\ LoopFree
    /\ stream.pc = "polling"
    /\ Len(stream.events) < MaxEvents
    /\ \E ok \in BOOLEAN :
        LET found == GetCollectionReturns(stream.doc, ok) IN
        stream' = [stream EXCEPT
            !.events = Append(@, [status |-> StatusOf(found), doc_id |-> stream.doc]),
            !.checks = Append(@, [found |-> found,
                                  present |-> CollectionExists(stream.doc),
                                  complete |-> Complete(stream.doc),
                                  acked |-> q[stream.doc] = "acked",
                                  dropped |-> q[stream.doc] = "dropped"]),
            !.pc = IF found THEN "closed" ELSE "polling"]
    /\ UNCHANGED <<upl, fileExists, content, published, q, wpc, wjob, wn, wi, chan,
                   settled, coll, chat, waiting, conversation_history>>

\* ---------------------------------------------------------------------- chat
\* conversation_id: str = None in ChatRequest.
NoCid == ""
\* uuid4 values chat_with_pdf mints, in the order they are generated.
MintSeq == <<"u1">>
\* Conversation ids clients send.
ClientCids == {"c1"}
Queries == {"", "q1", "q2"}
\* response["answer"] values the language model may return.
Answers == {"a1", "a2"}

\* A store that keeps one history per document.
HistoryKeyDoc(cid, doc) == doc

\* The key under which chat_with_pdf reads and writes conversation_history.
HistoryKey(cid, doc) == cid

\* dict.get(k, default).
Get(f, k, default) == IF k \in DOMAIN f THEN f[k] ELSE default

\* history[:n] in place of history[-n:].
FirstN(h, n) == SubSeq(h, 1, Min(n, Len(h)))

\* history[-n:].
LastN(h, n) == SubSeq(h, Len(h) - Min(n, Len(h)) + 1, Len(h))

\* "\n".join(f"Human: {msg['query']}\nAssistant: {msg['response']}" ...), as
\* its lines: two per turn.
FormatHistory(h) ==
    [k \in 1 .. 2 * Len(h) |->
        IF k % 2 = 1
        THEN [role |-> "Human", text |-> h[(k + 1) \div 2].query]
        ELSE [role |-> "Assistant", text |-> h[k \div 2].response]]

\* The system prompt chosen by `if history:`; only the first has {history}.
SystemPrompt(history) == IF history # <<>> THEN "with_history" ELSE "plain"

\* What rag_chain.invoke sends to the model: the system prompt with its
\* placeholders filled, and the human message.
BuildPrompt(history, context, query) ==
    [system |-> SystemPrompt(history),
     history |-> IF SystemPrompt(history) = "with_history"
                 THEN FormatHistory(LastN(history, HistoryWindow)) ELSE <<>>,
     context |-> context,
     input |-> query]

NoPrompt == [system |-> "none", history |-> <<>>, context |-> {}, input |-> ""]

\* The turn chat_with_pdf records.
Turn(query, answer) == [query |-> query, response |-> answer]

\* The status the outer except Exception clause gives.
ChatFailedStatus == 500

\* The 404 lost to the outer clause (no `except HTTPException: raise he`).
CollectionMissingAsFailure == ChatFailedStatus

\* The status of the HTTPException raised when get_collection raises.
CollectionMissingStatus == 404

\* StoreAfter with the turn recorded whether or not the model answered.
StoreAlways(store, cid, history, query, answer, ok) ==
    Put(store, cid, history \o <<Turn(query, answer)>>)

\* The conversation store after rag_chain.invoke: an exception skips the
\* assignment conversation_history[conversation_id] = history + [turn], where
\* history is the list the call read before the invoke.
StoreAfter(store, cid, history, query, answer, ok) ==
    IF ok
    THEN Put(store, cid, history \o <<Turn(query, answer)>>)
    ELSE store

NoChat == [pc |-> "idle", doc_id |-> "", query |-> "", conversation_id |-> "",
           calls |-> <<>>, present |-> FALSE, complete |-> FALSE,
           history |-> <<>>, prompt |-> NoPrompt,
           status |-> 0, answer |-> "", before |-> <<>>, minted |-> 0]

\* The number of uuid4 values chat_with_pdf has minted so far.
Minted == IF chat.minted < waiting.minted THEN waiting.minted ELSE chat.minted

\* chat_with_pdf up to the Qdrant client: validation, conversation id.
\* before keeps the conversation store as it was when the call began.
ChatStart(d, query, c) ==
    /\ LoopFree
    /\ c \in ClientCids \cup {NoCid}
    /\ c = NoCid => Minted < Len(MintSeq)
    /\ Len(Get(conversation_history, c, <<>>)) < MaxTurns
    /\ chat' =
        IF d = "" \/ query = ""
        THEN [NoChat EXCEPT !.pc = "done", !.doc_id = d, !.query = query,
                !.status = 400, !.before = conversation_history,
                !.minted = Minted]
        ELSE [NoChat EXCEPT !.pc = "check", !.doc_id = d, !.query = query,
                !.conversation_id = IF c # NoCid THEN c ELSE MintSeq[Minted + 1],
                !.before = conversation_history,
                !.minted = IF c # NoCid THEN Minted ELSE Minted + 1]
    /\ UNCHANGED <<upl, fileExists, content, published, q, wpc, wjob, wn, wi, chan,
                   settled, coll, stream, waiting, conversation_history>>

\* try: qdrant_client.get_collection(request.doc_id); any exception becomes
\* HTTPException(404), which the outer clause re-raises. present records
\* whether Qdrant held the collection at that moment. When the call returns,
\* the handler goes on to history = conversation_history.get(conversation_id, [])
\* and stops at rag_chain.invoke.
ChatCheck ==
    /\ chat.pc = "check"
    /\ \E ok \in BOOLEAN :
        chat' = IF GetCollectionReturns(chat.doc_id, ok)
                THEN [chat EXCEPT !.pc = "retrieve",
                        !.calls = Append(@, "get_collection"),
                        !.present = CollectionExists(chat.doc_id),
                        !.history = Get(conversation_history,
                                        HistoryKey(chat.conversation_id, chat.doc_id),
                                        <<>>)]
                ELSE [chat EXCEPT !.pc = "done",
                        !.calls = Append(@, "get_collection"),
                        !.present = CollectionExists(chat.doc_id),
                        !.status = CollectionMissingStatus]
    /\ UNCHANGED <<upl, fileExists, content, published, q, wpc, wjob, wn, wi, chan,
                   settled, coll, stream, waiting, conversation_history>>

\* The retriever of rag_chain.invoke: embed the query, search the collection
\* for the k nearest points. The prompt is assembled from the history the
\* handler read and the retrieved documents. complete records whether the
\* collection held every chunk of the document at that moment.
ChatRetrieve ==
    /\ chat.pc = "retrieve"
    /\ \E ok \in BOOLEAN :
       \E hits \in SUBSET PointIds(chat.doc_id) :
        /\ Cardinality(hits) = Min(RetrievalK, Cardinality(PointIds(chat.doc_id)))
        /\ chat' =
            IF ok /\ CollectionExists(chat.doc_id)
            THEN [chat EXCEPT !.pc = "generate",
                    !.calls = Append(@, "retrieve"),
                    !.complete = Complete(chat.doc_id),
                    !.prompt = BuildPrompt(
                        chat.history,
                        {coll[chat.doc_id].points[i].payload : i \in hits},
                        chat.query)]
            ELSE [chat EXCEPT !.pc = "done",
                    !.calls = Append(@, "retrieve"),
                    !.status = ChatFailedStatus]
    /\ UNCHANGED <<upl, fileExists, content, published, q, wpc, wjob, wn, wi, chan,
                   settled, coll, stream, waiting, conversation_history>>

\* The language model call of rag_chain.invoke, then
\* conversation_history[conversation_id] = history + [turn] and the return.
ChatGenerate ==
    /\ chat.pc = "generate"
    /\ \E ok \in BOOLEAN, answer \in Answers :
        /\ conversation_history' =
                StoreAfter(conversation_history,
                           HistoryKey(chat.conversation_id, chat.doc_id),
                           chat.history, chat.query, answer, ok)
        /\ chat' = IF ok
                   THEN [chat EXCEPT !.pc = "done",
                            !.calls = Append(@, "generate"),
                            !.status = 200, !.answer = answer]
                   ELSE [chat EXCEPT !.pc = "done",
                            !.calls = Append(@, "generate"),
                            !.status = ChatFailedStatus]
    /\ UNCHANGED <<upl, fileExists, content, published, q, wpc, wjob, wn, wi, chan,
                   settled, coll, stream, waiting>>

\* The event loop turns from the coroutine of one chat request to that of
\* another. It can do so only where the running coroutine awaits or has
\* returned, and chat_with_pdf awaits nowhere.
ChatSwitch ==
    /\ LoopFree
    /\ chat # waiting
    /\ chat' = waiting
    /\ waiting' = chat
    /\ UNCHANGED <<upl, fileExists, content, published, q, wpc, wjob, wn, wi, chan,
                   settled, coll, stream, conversation_history>>

\* ------------------------------------------------------------- specification
Init ==
    /\ upl = [d \in DocIds |-> "unused"]
    /\ fileExists = [d \in DocIds |-> FALSE]
    /\ content = [d \in DocIds |-> NoContent]
    /\ published = [d \in DocIds |-> 0]
    /\ q = [m \in MsgIds |-> "none"]
    /\ wpc = [w \in Workers |-> "idle"]
    /\ wjob = [w \in Workers |-> NoJob]
    /\ wn = [w \in Workers |-> 0]
    /\ wi = [w \in Workers |-> 0]
    /\ chan = [w \in Workers |-> TRUE]
    /\ settled = [m \in MsgIds |-> {}]
    /\ coll = [d \in DocIds \cup {UnknownDoc} |-> NoColl]
    /\ stream = NoStream
    /\ chat = NoChat
    /\ waiting = NoChat
    /\ conversation_history = <<>>

Next ==
    \/ \E d \in PipelineDocs, ct \in ContentTypes : UploadStart(d, ct)
    \/ \E d \in PipelineDocs, n \in 0 .. MaxChunks : UploadWrite(d, n)
    \/ \E d \in PipelineDocs : UploadPublish(d)
    \/ \E d \in PipelineDocs : UploadClose(d)
    \/ \E d \in PipelineDocs : RemoveFile(d)
    \/ \E w \in Workers, m \in PipelineDocs : Deliver(w, m)
    \/ \E w \in Workers : WorkerBegin(w)
    \/ \E w \in Workers : WorkerGetCollection(w)
    \/ \E w \in Workers : WorkerRecreate(w)
    \/ \E w \in Workers : WorkerUpsert(w)
    \/ \E w \in Workers : WorkerAck(w)
    \/ \E w \in Workers : WorkerNack(w)
    \/ \E w \in Workers : ChannelLost(w)
    \/ \E d \in PipelineDocs : StreamOpen(d)
    \/ StreamCheck

Spec == Init /\ [][Next]_vars

\* The chat endpoint alone, after two documents of MaxChunks chunks were
\* uploaded and ingested without an error.
Ingested(d) == [exists |-> TRUE, size |-> embedding_dim,
                points |-> [i \in 0 .. MaxChunks - 1 |-> PointStruct(d, i)]]

InitChat ==
    /\ upl = [d \in DocIds |-> "returned"]
    /\ fileExists = [d \in DocIds |-> TRUE]
    /\ content = [d \in DocIds |-> MaxChunks]
    /\ published = [d \in DocIds |-> 1]
    /\ q = [m \in MsgIds |-> IF m \in DocIds THEN "acked" ELSE "none"]
    /\ wpc = [w \in Workers |-> "idle"]
    /\ wjob = [w \in Workers |-> NoJob]
    /\ wn = [w \in Workers |-> 0]
    /\ wi = [w \in Workers |-> 0]
    /\ chan = [w \in Workers |-> TRUE]
    /\ settled = [m \in MsgIds |-> IF m \in DocIds THEN {"ack"} ELSE {}]
    /\ coll = [d \in DocIds \cup {UnknownDoc} |->
                IF d \in DocIds THEN Ingested(d) ELSE NoColl]
    /\ stream = NoStream
    /\ chat = NoChat
    /\ waiting = NoChat
    /\ conversation_history = <<>>

NextChat ==
    \/ \E d \in DocIds \cup {UnknownDoc, ""}, query \in Queries,
          c \in ClientCids \cup {NoCid} :
            ChatStart(d, query, c)
    \/ ChatCheck
    \/ ChatRetrieve
    \/ ChatGenerate

SpecChat == InitChat /\ [][NextChat]_vars

\* The chat endpoint running while the job of one returned upload is
\* ingested: the state after upload_pdf returned the first doc_id, for a file
\* of any number of chunks.
InitChatIngest ==
    /\ \E n \in 0 .. MaxChunks :
        content = [d \in DocIds |-> IF d = DocSeq[1] THEN n ELSE NoContent]
    /\ upl = [d \in DocIds |-> IF d = DocSeq[1] THEN "returned" ELSE "unused"]
    /\ fileExists = [d \in DocIds |-> d = DocSeq[1]]
    /\ published = [d \in DocIds |-> IF d = DocSeq[1] THEN 1 ELSE 0]
    /\ q = [m \in MsgIds |-> IF m = DocSeq[1] THEN "ready" ELSE "none"]
    /\ wpc = [w \in Workers |-> "idle"]
    /\ wjob = [w \in Workers |-> NoJob]
    /\ wn = [w \in Workers |-> 0]
    /\ wi = [w \in Workers |-> 0]
    /\ chan = [w \in Workers |-> TRUE]
    /\ settled = [m \in MsgIds |-> {}]
    /\ coll = [d \in DocIds \cup {UnknownDoc} |-> NoColl]
    /\ stream = NoStream
    /\ chat = NoChat
    /\ waiting = NoChat
    /\ conversation_history = <<>>

NextChatIngest ==
    \/ \E w \in Workers, m \in PipelineDocs : Deliver(w, m)
    \/ \E w \in Workers : WorkerBegin(w)
    \/ \E w \in Workers : WorkerGetCollection(w)
    \/ \E w \in Workers : WorkerRecreate(w)
    \/ \E w \in Workers : WorkerUpsert(w)
    \/ \E w \in Workers : WorkerAck(w)
    \/ \E w \in Workers : WorkerNack(w)
    \/ \E w \in Workers : ChannelLost(w)
    \/ \E d \in PipelineDocs, c \in ClientCids :
            /\ Len(Get(conversation_history, c, <<>>)) < MaxTurnsIngest
            /\ ChatStart(d, "q1", c)
    \/ ChatCheck
    \/ ChatRetrieve
    \/ ChatGenerate

SpecChatIngest == InitChatIngest /\ [][NextChatIngest]_vars

\* The queue and the workers alone: the jobs of two returned uploads are
\* ready, one of MaxChunks chunks and one of a single chunk, and a foreign
\* message may arrive.
InitQueue ==
    /\ upl = [d \in DocIds |-> "returned"]
    /\ fileExists = [d \in DocIds |-> TRUE]
    /\ content = [d \in DocIds |-> IF d = DocSeq[1] THEN MaxChunks ELSE 1]
    /\ published = [d \in DocIds |-> 1]
    /\ q = [m \in MsgIds |-> IF m \in DocIds THEN "ready" ELSE "none"]
    /\ wpc = [w \in Workers |-> "idle"]
    /\ wjob = [w \in Workers |-> NoJob]
    /\ wn = [w \in Workers |-> 0]
    /\ wi = [w \in Workers |-> 0]
    /\ chan = [w \in Workers |-> TRUE]
    /\ settled = [m \in MsgIds |-> {}]
    /\ coll = [d \in DocIds \cup {UnknownDoc} |-> NoColl]
    /\ stream = NoStream
    /\ chat = NoChat
    /\ waiting = NoChat
    /\ conversation_history = <<>>

NextQueue ==
    \/ PublishForeign
    \/ \E d \in DocIds : RemoveFile(d)
    \/ \E w \in Workers, m \in MsgIds : Deliver(w, m)
    \/ \E w \in Workers : WorkerBegin(w)
    \/ \E w \in Workers : WorkerGetCollection(w)
    \/ \E w \in Workers : WorkerRecreate(w)
    \/ \E w \in Workers : WorkerUpsert(w)
    \/ \E w \in Workers : WorkerAck(w)
    \/ \E w \in Workers : WorkerNack(w)
    \/ \E w \in Workers : ChannelLost(w)

SpecQueue == InitQueue /\ [][NextQueue]_vars

\* The workers and the queue following the job of one returned upload whose
\* file stays in place, with the scheduling the worker processes have: a
\* worker inside process_pdf runs on to its next call, and the broker
\* delivers a ready message to a consumer that can take it.
InitLive == InitChatIngest

NextLive ==
    \/ \E w \in Workers, m \in PipelineDocs : Deliver(w, m)
    \/ \E w \in Workers : WorkerBegin(w)
    \/ \E w \in Workers : WorkerGetCollection(w)
    \/ \E w \in Workers : WorkerRecreate(w)
    \/ \E w \in Workers : WorkerUpsert(w)
    \/ \E w \in Workers : WorkerAck(w)
    \/ \E w \in Workers : WorkerNack(w)
    \/ \E w \in Workers : ChannelLost(w)

FairLive ==
    \A w \in Workers :
        /\ WF_vars(\E m \in PipelineDocs : Deliver(w, m))
        /\ WF_vars(WorkerBegin(w))
        /\ WF_vars(WorkerGetCollection(w))
        /\ WF_vars(WorkerRecreate(w))
        /\ WF_vars(WorkerUpsert(w))
        /\ WF_vars(WorkerAck(w))
        /\ WF_vars(WorkerNack(w))

SpecLive == InitLive /\ [][NextLive]_vars /\ FairLive

\* Two chat requests in progress at once against the two ingested documents.
NextChatPair ==
    \/ \E d \in DocIds, query \in Queries \ {""}, c \in ClientCids \cup {NoCid} :
            /\ Len(Get(conversation_history, c, <<>>)) < MaxTurnsPair
            /\ ChatStart(d, query, c)
    \/ ChatCheck
    \/ ChatRetrieve
    \/ ChatGenerate
    \/ ChatSwitch

SpecChatPair == InitChat /\ [][NextChatPair]_vars

\* ======================================================================
\* Claims
\* ======================================================================

\* The step in which worker w runs the basic_nack of an except clause.
NackStep(w) == wpc[w] \in Raised /\ wpc'[w] # wpc[w]

\* C1 as stated: every delivery that fails because the file is missing is
\* rejected without redelivery (the broker drops the job) and is never
\* delivered again; every delivery that fails with another error is rejected
\* with redelivery and is back in the queue for another delivery.
C1_AsStated ==
    [][/\ \A w \in Workers :
            NackStep(w) =>
                q'[wjob[w]] = IF wpc[w] = "FileNotFoundError" THEN "dropped" ELSE "ready"
       /\ \A m \in MsgIds : q[m] = "dropped" => q'[m] = "dropped"]_vars

\* C1 amended: the same for every delivery whose channel is still open when
\* the worker settles it. A delivery whose channel was lost was handed back to
\* the queue by the broker, whatever the failure; the basic_nack raises, the
\* worker ends, and the queue is left as the broker made it.
C1_RetryPolicy ==
    [][/\ \A w \in Workers :
            NackStep(w) /\ chan[w] =>
                /\ q[wjob[w]] = w
                /\ q'[wjob[w]] =
                     IF wpc[w] = "FileNotFoundError" THEN "dropped" ELSE "ready"
       /\ \A w \in Workers :
            NackStep(w) /\ ~chan[w] =>
                /\ wpc'[w] = "dead"
                /\ q' = q
                /\ "lost" \in settled[wjob[w]]
       /\ \A m \in MsgIds : q[m] = "dropped" => q'[m] = "dropped"]_vars

\* C1 witness: a job that was rejected with redelivery, delivered again, and
\* then rejected without redelivery because its file had gone.
C1_Witness ==
    \E m \in DocIds :
        /\ q[m] = "dropped"
        /\ ~fileExists[m]
        /\ {"nack_requeue", "nack_drop"} \subseteq settled[m]

\* C2 as stated: a chat call that is answered was answered from a collection
\* that held every chunk of the document when the retriever searched it (any
\* other call ended with the not-ready condition or an error).
C2_NoPartialAnswer ==
    chat.pc = "done" /\ chat.status = 200 => chat.complete

\* C3 as stated: every "processed" event of the status stream was emitted on
\* a check at which the collection held all chunk points of the document.
C3_ProcessedMeansStored ==
    \A k \in 1 .. Len(stream.events) :
        stream.events[k].status = "processed" => stream.checks[k].complete

\* C4: the events of a status stream are "processing" events followed by at
\* most one "processed" event, which is the last one; the stream is closed
\* exactly when it has emitted "processed"; there is one event per check,
\* "processed" exactly on the check whose get_collection returned (the check
\* finds the collection present), which only happens when the collection
\* existed, and "processing" on every check at which it did not exist; every
\* event names the stream's doc_id.
C4_StreamShape ==
    /\ Len(stream.events) = Len(stream.checks)
    /\ \A k \in 1 .. Len(stream.events) :
        /\ stream.events[k].status \in {"processing", "processed"}
        /\ stream.events[k].doc_id = stream.doc
        /\ k < Len(stream.events) => stream.events[k].status = "processing"
        /\ stream.events[k].status = "processed" <=> stream.checks[k].found
        /\ stream.events[k].status = "processed" => stream.checks[k].present
        /\ ~stream.checks[k].present => stream.events[k].status = "processing"
    /\ stream.pc = "closed" <=>
            (stream.events # <<>> /\ Last(stream.events).status = "processed")
    /\ stream.pc = "none" => stream.events = <<>>

\* C4 witness: a closed stream that emitted "processing" events and then
\* "processed".
C4_Witness ==
    /\ stream.pc = "closed"
    /\ Len(stream.events) = MaxEvents
    /\ stream.events[1].status = "processing"
    /\ ~stream.checks[1].present
    /\ Last(stream.events).status = "processed"

\* C5 as stated: a stream opened after upload_pdf returned the doc_id emits
\* "processing" before it emits "processed": its first event is "processing".
C5_AsStated ==
    stream.afterReturn /\ stream.events # <<>> =>
        stream.events[1].status = "processing"

\* C5 amended: a stream opened after upload_pdf returned the doc_id emits
\* "processing" on every check made while the collection does not exist yet,
\* and "processed" only on a check made once it exists; so "processing"
\* comes before "processed" exactly when the first check is made before the
\* worker created the collection, and a stream whose first check finds the
\* collection starts with "processed".
C5_ProcessingWhileAbsent ==
    stream.afterReturn =>
        /\ \A k \in 1 .. Len(stream.events) :
            /\ ~stream.checks[k].present => stream.events[k].status = "processing"
            /\ stream.events[k].status = "processed" =>
                    /\ stream.checks[k].present
                    /\ \A j \in 1 .. k - 1 : stream.events[j].status = "processing"
        /\ (stream.events # <<>> /\ stream.events[1].status = "processed") =>
                (stream.checks[1].present /\ Len(stream.events) = 1)

\* C5 witness: such a stream that went straight to "processed".
C5_Witness ==
    /\ stream.afterReturn
    /\ Len(stream.events) = 1
    /\ stream.events[1].status = "processed"
    /\ stream.pc = "closed"

\* C6 as stated: every check a stream makes once the job of its doc_id is
\* acknowledged emits "processed" (so the first such check ends the stream).
C6_ProcessedAfterAck ==
    stream.pc # "none" /\ upl[stream.doc] = "returned" =>
        \A k \in 1 .. Len(stream.events) :
            stream.checks[k].acked => stream.events[k].status = "processed"

\* The turns of the conversation of the current chat call as they were when
\* the call began.
TurnsBefore == Get(chat.before, chat.conversation_id, <<>>)

\* C7: whenever a chat call has assembled its prompt, the history in the
\* prompt is the last min(3, N) of the N turns recorded for its
\* conversation_id, in recording order, each as a "Human" line with the
\* turn's query followed by an "Assistant" line with its response; and a call
\* that returns an answer records its query and answer as the last turn, so
\* the next call on that conversation_id has them in its prompt.
C7_HistoryWindow ==
    /\ chat.prompt.system # "none" =>
        LET N == Len(TurnsBefore)
            m == IF N < 3 THEN N ELSE 3
        IN  /\ Len(chat.prompt.history) = 2 * m
            /\ \A j \in 1 .. m :
                /\ chat.prompt.history[2 * j - 1] =
                        [role |-> "Human", text |-> TurnsBefore[N - m + j].query]
                /\ chat.prompt.history[2 * j] =
                        [role |-> "Assistant", text |-> TurnsBefore[N - m + j].response]
            /\ chat.prompt.input = chat.query
    /\ chat.pc = "done" /\ chat.status = 200 =>
        /\ chat.conversation_id \in DOMAIN conversation_history
        /\ Last(conversation_history[chat.conversation_id]) =
                [query |-> chat.query, response |-> chat.answer]

\* C7 witness: a prompt assembled for a conversation of four turns whose
\* first turn differs from its second and its last.
C7_Witness ==
    /\ chat.pc = "generate"
    /\ Len(TurnsBefore) = 4
    /\ TurnsBefore[1] # TurnsBefore[2]
    /\ TurnsBefore[1] # TurnsBefore[4]
    /\ Len(chat.prompt.history) = 6

\* C8: while a chat call runs, and after it failed (400, 404 or 500), the
\* conversation store is what it was when the call began, with no entry added
\* for the call's conversation_id; after it returned an answer the store
\* differs by exactly the one turn appended to that conversation.
C8_FailedChatLeavesStore ==
    /\ chat.pc \in {"check", "retrieve", "generate"} =>
            conversation_history = chat.before
    /\ chat.pc = "done" /\ chat.status # 200 =>
            conversation_history = chat.before
    /\ chat.pc = "done" /\ chat.status = 200 =>
        /\ DOMAIN conversation_history = DOMAIN chat.before \cup {chat.conversation_id}
        /\ \A c \in DOMAIN chat.before :
                c # chat.conversation_id => conversation_history[c] = chat.before[c]
        /\ conversation_history[chat.conversation_id] =
                Append(TurnsBefore, [query |-> chat.query, response |-> chat.answer])

\* C8 witness: a call with a freshly minted conversation_id whose
\* language-model call failed, with the store holding no entry for that id.
C8_Witness ==
    /\ chat.pc = "done"
    /\ chat.status = 500
    /\ chat.calls = <<"get_collection", "retrieve", "generate">>
    /\ chat.conversation_id = MintSeq[1]
    /\ chat.conversation_id \notin DOMAIN conversation_history
    /\ conversation_history # <<>>

\* C9: a chat call with non-empty doc_id and query whose get_collection was
\* made while the collection did not exist ends with status 404, never 500,
\* and made no other call: neither retrieval nor generation.
C9_MissingCollectionIs404 ==
    (chat.calls # <<>> /\ ~chat.present) =>
        /\ chat.pc = "done"
        /\ chat.status = 404
        /\ chat.calls = <<"get_collection">>
        /\ chat.prompt = NoPrompt

\* C9 witness: such a call, refused while a worker was already processing the
\* job of that doc_id.
C9_Witness ==
    /\ chat.pc = "done"
    /\ chat.status = 404
    /\ ~chat.present
    /\ chat.doc_id # ""
    /\ chat.query # ""
    /\ \E w \in Workers : wpc[w] = "recreate" /\ wjob[w] = chat.doc_id

\* C10 as stated: an upload that returned its doc_id has published exactly one
\* job for it, an upload that failed has published none, and no doc_id ever
\* has more than one job published.
C10_OneJobIffReturned ==
    \A d \in DocIds :
        /\ published[d] <= 1
        /\ upl[d] = "returned" => published[d] = 1
        /\ upl[d] \in {"failed400", "failed500"} => published[d] = 0

\* C11 as stated: once the collection of a doc_id exists, no step destroys or
\* re-creates it: it stays, every point stored in it stays, and its vector
\* size stays, over all deliveries and redeliveries and with two workers
\* handling the job at once.
C11_CollectionCreatedOnce ==
    [][\A d \in DocIds :
        CollectionExists(d) =>
            /\ coll'[d].exists
            /\ coll'[d].size = coll[d].size
            /\ DOMAIN coll[d].points \subseteq DOMAIN coll'[d].points]_vars

\* C12: within one attempt the loop is entered only from the collection
\* check or the collection's creation, with the collection existing and the
\* index at 0; every pass that stores a point stores the chunk of the current
\* index under that index as its id and moves the index on by one, so the
\* ids stored by an attempt are 0, 1, 2, ... in that order; and nothing but a
\* creation or such a pass changes a collection.
C12_UpsertsInOrder ==
    [][/\ \A w \in Workers :
            (wpc'[w] = "upsert" /\ wpc[w] # "upsert") =>
                /\ wpc[w] \in {"get_collection", "recreate"}
                /\ coll'[wjob[w]].exists
                /\ wi'[w] = 0
       /\ \A w \in Workers :
            (wpc[w] = "upsert" /\ wi'[w] # wi[w]) =>
                LET d == wjob[w] IN
                /\ wi[w] < wn[w]
                /\ wi'[w] = wi[w] + 1
                /\ coll[d].exists
                /\ DOMAIN coll'[d].points = DOMAIN coll[d].points \cup {wi[w]}
                /\ coll'[d].points[wi[w]] = PointStruct(d, wi[w])
                /\ \A j \in DOMAIN coll[d].points :
                        j # wi[w] => coll'[d].points[j] = coll[d].points[j]
       /\ coll' # coll =>
            \E w \in Workers :
                \/ wpc[w] = "recreate" /\ wpc'[w] # "recreate"
                \/ wpc[w] = "upsert" /\ wi'[w] = wi[w] + 1]_vars

\* C12 witness: an attempt that stored every chunk of a document of MaxChunks
\* chunks and reached its basic_ack.
C12_Witness ==
    \E w \in Workers :
        /\ wpc[w] = "ack"
        /\ wn[w] = MaxChunks
        /\ wi[w] = MaxChunks
        /\ PointIds(wjob[w]) = 0 .. MaxChunks - 1

\* C13 as stated: at the step that acknowledges the job of a doc_id, the
\* collection of that doc_id holds exactly one point per chunk of the
\* document, with ids 0..n-1 and the payload of the chunk of that index,
\* whatever attempts came before.
C13_AckedMeansComplete ==
    [][\A m \in DocIds :
        (q[m] # "acked" /\ q'[m] = "acked") => Complete(m)]_vars

\* C14: a worker holds at most one unacknowledged delivery, and a message is
\* delivered to a worker only when the worker is outside process_pdf and
\* holds none: its previous delivery was acknowledged or rejected.
C14_OneInFlight ==
    [][/\ \A w \in Workers : Cardinality(Unacked(w)) <= 1
       /\ \A w \in Workers : \A m \in MsgIds :
            (q[m] # w /\ q'[m] = w) =>
                /\ wpc[w] = "idle"
                /\ wjob[w] = NoJob
                /\ Unacked(w) = {}
                /\ Unacked(w)' = {m}
                /\ wjob'[w] = m]_vars

\* C14 witness: a worker that settled one delivery and is processing the
\* next while the third message waits in the queue.
C14_Witness ==
    \E w \in Workers : \E m1, m2, m3 \in MsgIds :
        /\ m1 # m2 /\ m2 # m3 /\ m1 # m3
        /\ q[m1] = "acked"
        /\ q[m2] = w
        /\ wpc[w] = "upsert"
        /\ q[m3] = "ready"
        /\ \A v \in Workers \ {w} : wpc[v] = "idle" /\ wjob[v] = NoJob /\ chan[v]

\* A step in which extraction, embedding or a vector-store call of some
\* attempt raises.
ExternalCallFails ==
    \E w \in Workers :
        /\ wpc[w] \in {"begin", "recreate", "upsert"}
        /\ wpc'[w] = "Exception"

\* C15 as stated: if the external calls fail only finitely many times, the
\* job of the upload is eventually acknowledged with its collection
\* existing, and an acknowledged job is never delivered again.
C15_AsStated ==
    /\ <>[][~ExternalCallFails]_vars =>
            <>(q[DocSeq[1]] = "acked" /\ CollectionExists(DocSeq[1]))
    /\ [][q[DocSeq[1]] = "acked" => q'[DocSeq[1]] = "acked"]_vars

\* C15 amended: the same provided some worker's channel to the broker is
\* never lost.
C15_EventuallyAcked ==
    /\ ((\E w \in Workers : []chan[w]) /\ <>[][~ExternalCallFails]_vars) =>
            <>(q[DocSeq[1]] = "acked" /\ CollectionExists(DocSeq[1]))
    /\ [][q[DocSeq[1]] = "acked" => q'[DocSeq[1]] = "acked"]_vars

\* C15 witness: the job acknowledged after an attempt that failed and was
\* redelivered and after another attempt lost its channel.
C15_Witness ==
    /\ q[DocSeq[1]] = "acked"
    /\ {"nack_requeue", "lost", "ack"} \subseteq settled[DocSeq[1]]
    /\ Complete(DocSeq[1])

\* C16 as stated: every check a status stream makes once the job of its
\* doc_id was rejected without redelivery for a missing file emits
\* "processing"; the stream never emits "processed".
C16_DroppedNeverProcessed ==
    \A k \in 1 .. Len(stream.events) :
        stream.checks[k].dropped => stream.events[k].status = "processing"

\* The step in which the running chat call returns an answer.
AnswerStep ==
    /\ chat.pc = "generate"
    /\ chat'.pc = "done"
    /\ chat'.status = 200
    /\ waiting' = waiting

\* C17: with two chat requests in progress, every step in which a call
\* returns an answer appends that call's turn to the turns its conversation
\* holds at that moment and leaves every other conversation as it is, and no
\* other step changes the store: the conversation holds one turn per
\* answered call, in completion order, none lost and none twice.
C17_OneTurnPerAnswer ==
    [][/\ AnswerStep =>
            conversation_history' =
                Put(conversation_history, chat.conversation_id,
                    Append(Get(conversation_history, chat.conversation_id, <<>>),
                           [query |-> chat.query, response |-> chat'.answer]))
       /\ ~AnswerStep => conversation_history' = conversation_history]_vars

\* C17 witness: two requests on the same conversation_id, both answered, the
\* conversation holding the turn of the one that finished first and then the
\* turn of the other.
C17_Witness ==
    /\ chat.pc = "done" /\ chat.status = 200
    /\ waiting.pc = "done" /\ waiting.status = 200
    /\ chat.conversation_id = waiting.conversation_id
    /\ chat.query # waiting.query
    /\ conversation_history[chat.conversation_id] =
            <<[query |-> waiting.query, response |-> waiting.answer],
              [query |-> chat.query, response |-> chat.answer]>>

\* The texts of the lines of a prompt history.
PromptTexts(h) == {h[k].text : k \in 1 .. Len(h)}

\* C20: the store has one entry per conversation_id and none per document;
\* the prompt of a call holds the query and the answer of an earlier answered
\* call on the same conversation_id as consecutive Human and Assistant lines,
\* whether or not the two calls name the same doc_id; and it holds only texts
\* of turns of its own conversation, so nothing of a conversation with another
\* conversation_id.
C20_KeyedByConversation ==
    /\ DOMAIN conversation_history \subseteq
            ClientCids \cup {MintSeq[k] : k \in 1 .. Len(MintSeq)}
    /\ (/\ chat.pc = "generate"
        /\ waiting.pc = "done" /\ waiting.status = 200
        /\ waiting.conversation_id = chat.conversation_id) =>
            \E k \in 1 .. Len(chat.prompt.history) - 1 :
                /\ chat.prompt.history[k] = [role |-> "Human", text |-> waiting.query]
                /\ chat.prompt.history[k + 1] =
                        [role |-> "Assistant", text |-> waiting.answer]
    /\ chat.pc = "generate" =>
            PromptTexts(chat.prompt.history) \subseteq
                {TurnsBefore[k].query : k \in 1 .. Len(TurnsBefore)} \cup
                {TurnsBefore[k].response : k \in 1 .. Len(TurnsBefore)}

\* C20 witness: a call against one document whose prompt holds the turn of an
\* answered call against the other document on the same conversation_id,
\* while the store also holds a conversation with another id.
C20_Witness ==
    /\ chat.pc = "generate"
    /\ waiting.pc = "done" /\ waiting.status = 200
    /\ waiting.conversation_id = chat.conversation_id
    /\ waiting.doc_id # chat.doc_id
    /\ chat.prompt.history =
            <<[role |-> "Human", text |-> waiting.query],
              [role |-> "Assistant", text |-> waiting.answer]>>
    /\ \E c \in DOMAIN conversation_history :
            /\ c # chat.conversation_id
            /\ conversation_history[c][1].query # waiting.query

\* The step in which process_pdf ends for worker w: it returns, or its
\* basic_nack raises out of it.
ReturnStep(w) == wpc[w] \notin {"idle", "dead"} /\ wpc'[w] \in {"idle", "dead"}

\* The settlement the broker records for a message leaving a worker's hands.
SettlementOf(state) ==
    IF state = "acked" THEN "ack"
    ELSE IF state = "ready" THEN "nack_requeue" ELSE "nack_drop"

\* C18 as stated: every delivery handled by process_pdf ends with exactly one
\* settlement: the step that ends process_pdf takes the message out of the
\* worker's hands as acknowledged, requeued or dropped, and no other step of
\* a worker settles a delivery.
C18_AsStated ==
    [][/\ \A w \in Workers :
            ReturnStep(w) =>
                /\ q[wjob[w]] = w
                /\ q'[wjob[w]] \in {"acked", "ready", "dropped"}
       /\ \A m \in MsgIds :
            (q[m] \in Workers /\ q'[m] # q[m] /\ chan' = chan) => ReturnStep(q[m])]_vars

\* C18 amended: the same for every delivery whose channel is open when
\* process_pdf ends, with the settlement the broker records being the one
\* the queue shows. When the channel was lost during the delivery, the broker
\* took the delivery back at the loss; basic_ack and basic_nack raise,
\* process_pdf ends without a settlement and the worker stops.
C18_SettledOnce ==
    [][/\ \A w \in Workers :
            (ReturnStep(w) /\ chan[w]) =>
                LET m == wjob[w] IN
                /\ q[m] = w
                /\ q'[m] \in {"acked", "ready", "dropped"}
                /\ settled'[m] = settled[m] \cup {SettlementOf(q'[m])}
                /\ \A x \in MsgIds \ {m} : q'[x] = q[x] /\ settled'[x] = settled[x]
                /\ wpc'[w] = "idle"
       /\ \A w \in Workers :
            (ReturnStep(w) /\ ~chan[w]) =>
                /\ q' = q
                /\ settled' = settled
                /\ "lost" \in settled[wjob[w]]
                /\ wpc'[w] = "dead"
       /\ \A m \in MsgIds :
            (q[m] \in Workers /\ q'[m] # q[m] /\ chan' = chan) => ReturnStep(q[m])]_vars

\* C18 witness: one job acknowledged after a rejection with redelivery, the
\* other rejected without redelivery, the malformed message rejected with
\* redelivery, and a delivery taken back from a lost channel.
C18_Witness ==
    /\ q[DocSeq[1]] = "acked"
    /\ "nack_requeue" \in settled[DocSeq[1]]
    /\ q[DocSeq[2]] = "dropped"
    /\ "nack_requeue" \in settled[BadMsg]
    /\ \E m \in MsgIds : "lost" \in settled[m]

\* C19: a malformed message is never acknowledged and never dropped: the
\* broker only ever records rejections with redelivery for it (or takes it
\* back from a lost channel); the attempt handling it goes from the parse
\* straight to the except Exception clause, changes no collection, and its
\* basic_nack puts the message back in the queue, every time.
C19_MalformedRequeued ==
    [][/\ q'[BadMsg] \notin {"acked", "dropped"}
       /\ settled'[BadMsg] \subseteq {"nack_requeue", "lost"}
       /\ \A w \in Workers :
            wjob'[w] = BadMsg => wpc'[w] \in {"begin", "Exception"}
       /\ \A w \in Workers :
            (wjob[w] = BadMsg /\ wpc'[w] # wpc[w]) => coll' = coll
       /\ \A w \in Workers :
            (wjob[w] = BadMsg /\ ReturnStep(w) /\ chan[w]) =>
                /\ wpc[w] = "Exception"
                /\ q'[BadMsg] = "ready"
                /\ "nack_requeue" \in settled'[BadMsg]]_vars

\* C19 witness: the malformed message, rejected with redelivery before, in
\* the except clause of a later delivery.
C19_Witness ==
    /\ "nack_requeue" \in settled[BadMsg]
    /\ \E w \in Workers :
        /\ q[BadMsg] = w
        /\ wjob[w] = BadMsg
        /\ wpc[w] = "Exception"
    /\ \A d \in DocIds : q[d] = "ready"

====
